---- MODULE Spec2Model ----
(***************************************************************************)
(* maven-uploader (src/main.rs): a scanner thread walks a local Maven      *)
(* tree, resolves every descriptor into a MavenArtifact, filters it and    *)
(* sends it over an unbounded channel; a pool of workers drains the        *)
(* channel and runs upload_file on every file of every artifact, guarded   *)
(* by a persistent table  target URL -> mtime  (redb) and a HEAD probe.    *)
(*                                                                         *)
(* Strings are sequences of one-character strings, paths are sequences of  *)
(* segments, so that starts_with / ends_with / contains / get(n..) /       *)
(* join / replace are computed the way the code computes them.             *)
(***************************************************************************)
EXTENDS Integers, Sequences, FiniteSets, TLC

\* ------------------------------------------------------------------ bounds
Workers == 2          \* size of the consumer pool
MaxRuns == 2          \* process invocations in one behaviour
MaxFaults == 1        \* failures (HTTP status, transport, table write) per run

None == 0             \* Option::None of table.get / of an absent remote object

\* ------------------------------------------------------------ string layer
\* str::starts_with
StartsWith(s, p) ==
    /\ Len(p) <= Len(s)
    /\ SubSeq(s, 1, Len(p)) = p

\* str::ends_with
EndsWith(s, p) ==
    /\ Len(p) <= Len(s)
    /\ SubSeq(s, Len(s) - Len(p) + 1, Len(s)) = p

\* str::contains (substring search; the empty pattern is contained in all)
Contains(s, p) ==
    \E i \in 1..(Len(s) + 1) :
        /\ i + Len(p) - 1 <= Len(s)
        /\ SubSeq(s, i, i + Len(p) - 1) = p

\* str::get(n..) followed by unwrap_or(""): the tail from byte offset n
GetFrom(s, n) == IF n <= Len(s) THEN SubSeq(s, n + 1, Len(s)) ELSE <<>>

\* [String]::join(sep)
RECURSIVE Join(_, _)
Join(segs, sep) ==
    IF Len(segs) = 0 THEN <<>>
    ELSE IF Len(segs) = 1 THEN segs[1]
    ELSE segs[1] \o sep \o Join(Tail(segs), sep)

\* str::replace(from, to) for a one-character pattern
Replace(s, from, to) == [i \in 1..Len(s) |-> IF s[i] = from THEN to ELSE s[i]]

DOT == <<".">>
SLASH == <<"/">>
DASH == <<"-">>
SNAPSHOT == <<"-", "S", "N", "A", "P", "S", "H", "O", "T">>
EXT_JAR == <<"j", "a", "r">>
EXT_WAR == <<"w", "a", "r">>
DOT_POM == <<".", "p", "o", "m">>
POM_XML == <<"p", "o", "m", ".", "x", "m", "l">>
REMOTE_REPOSITORIES ==
    <<"_", "r", "e", "m", "o", "t", "e", ".",
      "r", "e", "p", "o", "s", "i", "t", "o", "r", "i", "e", "s">>
LAST_UPDATED == <<".", "l", "a", "s", "t", "U", "p", "d", "a", "t", "e", "d">>

MiB == 1024 * 1024

\* -------------------------------------------------------------- file system
\* One character strings are written with C(_) to keep the trees readable.
C(c) == <<c>>
A_1_POM == <<"a", "-", "1">> \o DOT_POM
B_SNAP == <<"b", "-", "1">> \o SNAPSHOT
V_SNAP == <<"1">> \o SNAPSHOT

\* A node of the tree: its path below the scan root (a sequence of segments),
\* what it is ("file", "link": a symlink, "err": an entry the walk reports
\* as an error and the file system calls fail on), its length in bytes and,
\* for a symlink, the canonical path it resolves to (outside = the target is
\* not below the root).
Node(path, kind, size, target, outside) ==
    [path |-> path, kind |-> kind, size |-> size, target |-> target, outside |-> outside]
File(path, size) == Node(path, "file", size, path, FALSE)
Link(path, target) == Node(path, "link", 0, target, FALSE)
LinkOut(path) == Node(path, "link", 0, <<>>, TRUE)
Unreadable(path) == Node(path, "err", 0, path, FALSE)

\* g/a/1 holds two descriptors (a-1.pom and pom.xml) and a marker file;
\* g/b/1-SNAPSHOT holds a descriptor and a jar one byte above 2 MiB;
\* a/1 is too shallow to be a group/artifact/version layout.
Tree1 ==
    << File(<<C("g"), C("a"), C("1"), A_1_POM>>, 1),
       File(<<C("g"), C("a"), C("1"), A_1_POM \o LAST_UPDATED>>, 1),
       File(<<C("g"), C("a"), C("1"), POM_XML>>, 1),
       File(<<C("g"), C("b"), V_SNAP, B_SNAP \o DOT_POM>>, 1),
       File(<<C("g"), C("b"), V_SNAP, B_SNAP \o DOT \o EXT_JAR>>, 2 * MiB + 1),
       File(<<C("a"), C("1"), A_1_POM>>, 1) >>

\* g/h/a/1 lies two group segments deep and holds a descriptor and a jar
\* with a classifier; x.y/a/1 has a group directory with a '.' in its name.
A_1_SOURCES_JAR ==
    <<"a", "-", "1", "-", "s", "o", "u", "r", "c", "e", "s", ".">> \o EXT_JAR
X_DOT_Y == <<"x", ".", "y">>
Tree2 ==
    << File(<<C("g"), C("h"), C("a"), C("1"), A_1_POM>>, 1),
       File(<<C("g"), C("h"), C("a"), C("1"), A_1_SOURCES_JAR>>, 1),
       File(<<X_DOT_Y, C("a"), C("1"), A_1_POM>>, 1) >>

\* k/a/1/a-1.pom is a symlink to the descriptor g/a/1/a-1.pom, o/a/1/a-1.pom
\* a symlink to a file outside the root, m/a/1/a-1.pom a symlink to nothing,
\* e/a/1/a-1.pom an entry the walk cannot read; z/a/1/a-1.pom comes last.
Tree3 ==
    << File(<<C("g"), C("a"), C("1"), A_1_POM>>, 1),
       Link(<<C("k"), C("a"), C("1"), A_1_POM>>, <<C("g"), C("a"), C("1"), A_1_POM>>),
       LinkOut(<<C("o"), C("a"), C("1"), A_1_POM>>),
       Link(<<C("m"), C("a"), C("1"), A_1_POM>>, <<C("n"), C("a"), C("1"), A_1_POM>>),
       Unreadable(<<C("e"), C("a"), C("1"), A_1_POM>>),
       File(<<C("z"), C("a"), C("1"), A_1_POM>>, 1) >>

Trees == <<Tree1, Tree2, Tree3>>

\* Path::file_name and Path::parent
FileName(path) == path[Len(path)]
Parent(path) == SubSeq(path, 1, Len(path) - 1)

\* the node found at a path of tree t (0 when there is none)
NodeAt(t, path) ==
    IF \E i \in 1..Len(t) : t[i].path = path
    THEN CHOOSE i \in 1..Len(t) : t[i].path = path
    ELSE 0

\* fs::read_dir(dir): the entries directly below dir, in listing order
IsChild(n, dir) == Len(n.path) = Len(dir) + 1 /\ Parent(n.path) = dir
ReadDir(t, dir) == SelectSeq(t, LAMBDA n : IsChild(n, dir))

\* Path::is_file follows symlinks
IsFile(t, n) ==
    \/ n.kind = "file"
    \/ /\ n.kind = "link"
       /\ \/ n.outside
          \/ /\ NodeAt(t, n.target) # 0
             /\ t[NodeAt(t, n.target)].kind = "file"

\* fs::metadata(path): follows symlinks; the node whose length and
\* modification time are reported, 0 when the call fails
Metadata(t, path) ==
    LET n == NodeAt(t, path)
    IN  IF n = 0 THEN 0
        ELSE IF t[n].kind = "err" THEN 0
        ELSE IF t[n].kind = "link" /\ ~t[n].outside THEN NodeAt(t, t[n].target)
        ELSE n

\* ------------------------------------------------- extract_full_artifact
Err == [ok |-> FALSE]

\* lines 197-200: the (path, ext) pair of a listed file, ext empty when the
\* name is not admitted
ExtOf(fname, prefix) ==
    IF /\ StartsWith(fname, prefix)
       /\ ~Contains(fname, REMOTE_REPOSITORIES)
       /\ ~EndsWith(fname, LAST_UPDATED)
    THEN GetFrom(fname, Len(prefix) + 1)
    ELSE <<>>

\* lines 193-204: the files of the descriptor's (walk-path) parent directory
\* that are regular files and get a non-empty ext
ArtifactFiles(t, parent_dir, prefix) ==
    LET listed == SelectSeq(ReadDir(t, parent_dir),
                            LAMBDA n : IsFile(t, n) /\ ExtOf(FileName(n.path), prefix) # <<>>)
    IN  [i \in 1..Len(listed) |->
            [path |-> listed[i].path, ext |-> ExtOf(FileName(listed[i].path), prefix)]]

\* (mutant) the depth test is off by one
TooShallow_Mut(len) == len < 3

\* line 183: if components.len() < 4
TooShallow(len) == len < 4

\* lines 178-206
extract_full_artifact(t, pom_path) ==
    LET n == NodeAt(t, pom_path)
        components == t[n].target         \* canonicalize + strip_prefix(root)
        len == Len(components)
        version == components[len - 1]
        artifact_id == components[len - 2]
        group_id == Join(SubSeq(components, 1, len - 3), DOT)
        prefix == artifact_id \o DASH \o version
    IN  IF n = 0 THEN Err
        ELSE IF Metadata(t, pom_path) = 0 THEN Err     \* canonicalize fails
        ELSE IF t[n].outside THEN Err                  \* strip_prefix fails
        ELSE IF TooShallow(len) THEN Err
        ELSE [ok |-> TRUE, group_id |-> group_id, artifact_id |-> artifact_id,
              version |-> version,
              files |-> ArtifactFiles(t, Parent(pom_path), prefix)]

\* ------------------------------------------------------------ is_excluded

\* (mutant) the keywords are matched against the groupId only
MatchesExclude_Mut(art, exclude) ==
    \E i \in 1..Len(exclude) : Contains(art.group_id, exclude[i])

\* lines 209-214
MatchesExclude(art, exclude) ==
    \E i \in 1..Len(exclude) :
        \/ Contains(art.artifact_id, exclude[i])
        \/ Contains(art.group_id, exclude[i])

\* lines 215-224
TooLarge(t, art, max_size) ==
    \E i \in 1..Len(art.files) :
        /\ art.files[i].ext = EXT_JAR \/ art.files[i].ext = EXT_WAR
        /\ Metadata(t, art.files[i].path) # 0
        /\ (t[Metadata(t, art.files[i].path)].size \div 1024) \div 1024 > max_size

\* lines 208-226
is_excluded(t, art, exclude, max_size) ==
    MatchesExclude(art, exclude) \/ TooLarge(t, art, max_size)

\* ------------------------------------------------------------ target URL
\* Option<String>
Some(v) == [some |-> TRUE, val |-> v]
NoUrl == [some |-> FALSE, val |-> <<>>]

\* (mutant) the snapshot marker is looked for at the start of the version
base_url_Mut(version, url, snapshot_url) ==
    LET is_snapshot == StartsWith(version, SNAPSHOT)
        raw_url == IF is_snapshot
                   THEN (IF snapshot_url.some THEN snapshot_url.val ELSE url)
                   ELSE url
    IN  IF EndsWith(raw_url, SLASH) THEN raw_url ELSE raw_url \o SLASH

\* lines 162-164
base_url(version, url, snapshot_url) ==
    LET is_snapshot == EndsWith(version, SNAPSHOT)
        raw_url == IF is_snapshot
                   THEN (IF snapshot_url.some THEN snapshot_url.val ELSE url)
                   ELSE url
    IN  IF EndsWith(raw_url, SLASH) THEN raw_url ELSE raw_url \o SLASH

\* lines 238-240
file_name(art, remote_ext) == art.artifact_id \o DASH \o art.version \o DOT \o remote_ext
group_path(art) == Replace(art.group_id, ".", "/")
target_url(base, art, remote_ext) ==
    base \o group_path(art) \o SLASH \o art.artifact_id \o SLASH \o art.version
         \o SLASH \o file_name(art, remote_ext)

\* ------------------------------------------------------------------ state
VARIABLES
    tree,       \* which tree of Trees lies below the scan root
    mtime,      \* node index -> modification time (epoch seconds)
    args,       \* the parsed command line (Args)
    store,      \* redb table uploads_v1: target URL -> mtime (persistent)
    remote,     \* the repository: target URL -> object it holds
    run,        \* number of the current process invocation
    phase,      \* "running" | "done" (main returned)
    scan,       \* index of the next entry the walk yields
    processed,  \* processed_poms: the paths inserted so far
    queue,      \* the unbounded channel (tx -> rx)
    w,          \* worker -> its position in the consumer closure / upload_file
    log,        \* this run's requests: PUT, HEAD and table lookups per URL
    outcome,    \* this run's per-file results: file path -> set of outcomes
    faults,     \* failures (remote, table write) injected in this run
    prior,      \* how the previous invocation ended and left its files
    touched,    \* node whose mtime changed since the previous invocation
    store0,     \* the table as this invocation found it
    remote0,    \* the repository as this invocation found it
    walk        \* the directory walk: "pending" | "running" | "busy" (given up)

vars == <<tree, mtime, args, store, remote, run, phase, scan, processed, queue,
          w, log, outcome, faults, prior, touched, store0, remote0, walk>>

\* a map with a growing domain (table, repository, counters)
Get(m, k) == IF k \in DOMAIN m THEN m[k] ELSE None
Put(m, k, v) == [x \in (DOMAIN m) \cup {k} |-> IF x = k THEN v ELSE m[x]]
Empty == [x \in {} |-> None]
Inc(m, k) == Put(m, k, Get(m, k) + 1)
GetSet(m, k) == IF k \in DOMAIN m THEN m[k] ELSE {}

FS == Trees[tree]
\* a thread of the rayon default pool: where it stands (pc), the artifact and
\* file it works on, the target_url and mtime of the running upload_file
\* call, the URL for which that call has received a 2xx response (<<>>:
\* none yet), and the table transaction the call holds open ("none",
\* "read", "write").  pc = "free": the thread has no job; "walk": it runs the
\* directory walk; "idle": it runs the consumer and waits on the channel.
Idle == [pc |-> "idle", art |-> Err, idx |-> 0, url |-> <<>>, mtime |-> None, ok |-> <<>>,
         txn |-> "none"]
Free == [Idle EXCEPT !.pc = "free"]
NoLog == [put |-> Empty, head |-> Empty, get |-> Empty]

\* the configurations a behaviour starts from
ArgsSet ==
    [ url : {C("r")},
      snapshot_url : {NoUrl, Some(C("s"))},
      force : BOOLEAN,
      exclude : {<<>>, <<C("b")>>},
      max_size : {1, 2} ]

\* the state main has built when the scanner thread is spawned, the scan
\* root holding one of the trees ts
InitOn(ts) ==
    /\ tree \in ts
    /\ mtime = [n \in 1..Len(Trees[tree]) |-> 1]
    /\ args \in ArgsSet
    /\ store = Empty
    /\ remote = Empty
    /\ run = 1
    /\ phase = "running"
    /\ scan = 1
    /\ processed = {}
    /\ queue = <<>>
    /\ w = [i \in 1..Workers |-> Free]
    /\ walk = "pending"
    /\ log = NoLog
    /\ outcome = Empty
    /\ faults = 0
    /\ prior = "none"
    /\ touched = 0
    /\ store0 = Empty
    /\ remote0 = Empty

Init == InitOn({1})

\* ------------------------------------------------------------ thread pool
\* Both the directory walk (line 137, Parallelism::RayonDefaultPool) and the
\* consumer (line 160, par_bridge) run on the threads of the one rayon
\* default pool; a thread that has taken a job keeps it until the job returns.
\* (mutant) a sender of the channel outlives the scanner thread, so the
\* channel is never seen closed
ScanDone_Mut == FALSE

\* lines 135-154: the scanner thread has ended (the walk is exhausted or has
\* given up) and has dropped tx
ScanDone == walk = "busy" \/ scan > Len(FS)

\* lines 136-138: the walk is handed to the pool and a thread takes it
StartWalk(i) ==
    /\ phase = "running"
    /\ walk = "pending"
    /\ w[i].pc = "free"
    /\ walk' = "running"
    /\ w' = [w EXCEPT ![i].pc = "walk"]
    /\ UNCHANGED <<tree, mtime, args, store, remote, run, phase, scan, processed,
                   queue, log, outcome, faults, prior, touched, store0, remote0>>

\* lines 160-161: a thread that has no job, or whose walk has returned,
\* takes a share of the consumer and waits on the channel
StartConsumer(i) ==
    /\ phase = "running"
    /\ w[i].pc = "free" \/ (w[i].pc = "walk" /\ ScanDone)
    /\ w' = [w EXCEPT ![i].pc = "idle"]
    /\ UNCHANGED <<tree, mtime, args, store, remote, run, phase, scan, processed,
                   queue, log, outcome, faults, prior, touched, store0, remote0, walk>>

\* line 137 (busy_timeout) and line 139 (filter_map(|e| e.ok())): no thread
\* of the pool takes the walk within the timeout, every one being held by
\* the consumer; the iterator yields the error alone, which is dropped, and
\* the scanner thread ends without having seen an entry
BusyTimeout ==
    /\ phase = "running"
    /\ walk = "pending"
    /\ \A i \in 1..Workers : w[i].pc # "free"
    /\ walk' = "busy"
    /\ UNCHANGED <<tree, mtime, args, store, remote, run, phase, scan, processed,
                   queue, w, log, outcome, faults, prior, touched, store0, remote0>>

\* --------------------------------------------------------------- scanner
\* lines 140-153: the closure run on one entry of the walk
IsDescriptorName(name) == EndsWith(name, DOT_POM) \/ name = POM_XML

\* line 139: filter_map(|e| e.ok()) drops the entries reported as errors
Yielded(path) == FS[NodeAt(FS, path)].kind # "err"

\* line 145: extract_full_artifact(&path, &root_ref) for entry e of the walk
\* (the results for every entry of every tree, computed once)
ArtTable ==
    [t \in 1..Len(Trees) |->
        [e \in 1..Len(Trees[t]) |-> extract_full_artifact(Trees[t], Trees[t][e].path)]]
ArtOf(e) == ArtTable[tree][e]

Admitted(path) ==
    /\ Yielded(path)
    /\ IsDescriptorName(FileName(path))
    /\ ArtOf(NodeAt(FS, path)).ok
    /\ ~is_excluded(FS, ArtOf(NodeAt(FS, path)), args.exclude, args.max_size)

\* line 147: DashMap::insert(path, ()).is_none()
Claim(path) == path \notin processed

ScanEntry ==
    /\ phase = "running"
    /\ walk = "running"
    /\ scan <= Len(FS)
    /\ LET path == FS[scan].path
       IN  IF Admitted(path) /\ Claim(path)
           THEN /\ processed' = processed \cup {path}
                /\ queue' = Append(queue, ArtOf(scan))
           ELSE UNCHANGED <<processed, queue>>
    /\ scan' = scan + 1
    /\ UNCHANGED <<tree, mtime, args, store, remote, run, phase, w, log, outcome,
                   faults, prior, touched, store0, remote0, walk>>

\* ---------------------------------------------------------------- workers
Base(art) == base_url(art.version, args.url, args.snapshot_url)
CurFile(i) == w[i].art.files[w[i].idx]

\* lines 168-171: after upload_file returns, the next file of the artifact,
\* or back to the channel when the artifact is finished
Advance(i) ==
    IF w[i].idx < Len(w[i].art.files)
    THEN [w[i] EXCEPT !.pc = "file", !.idx = @ + 1, !.url = <<>>, !.mtime = None,
                      !.ok = <<>>, !.txn = "none"]
    ELSE Idle

\* the per-file result reported through the progress bar (or dropped by `let _ =`)
Note(path, what) == Put(outcome, path, GetSet(outcome, path) \cup {what})

\* lines 160-167: a worker takes the next artifact from the channel
Dequeue(i) ==
    /\ phase = "running"
    /\ w[i].pc = "idle"
    /\ queue # <<>>
    /\ w' = [w EXCEPT ![i] =
                IF Len(Head(queue).files) = 0 THEN Idle
                ELSE [pc |-> "file", art |-> Head(queue), idx |-> 1,
                      url |-> <<>>, mtime |-> None, ok |-> <<>>, txn |-> "none"]]
    /\ queue' = Tail(queue)
    /\ UNCHANGED <<tree, mtime, args, store, remote, run, phase, scan, processed,
                   log, outcome, faults, prior, touched, store0, remote0, walk>>

\* (mutant) the comparison of the stored value with the mtime is inverted
LocalMatch_Mut(url, m) == Get(store, url) # None /\ Get(store, url) # m

\* line 249: table.get(target_url).map_or(false, |v| v.value() == mtime)
LocalMatch(url, m) == Get(store, url) = m

\* (mutant) read_txn is bound in the function body, not in a block of its
\* own, and lives until upload_file returns
TxnAfterLookup_Mut == "read"

\* lines 246-250: read_txn and table are opened inside the block that
\* computes skip and dropped where it ends, before the HEAD is sent
TxnAfterLookup == "none"

\* (mutant) the force flag is not consulted
Checks_Mut == TRUE

\* line 244: the idempotency checks are made unless --force is given
Checks == ~args.force

\* lines 238-256 / 266-267: build the URL, read the mtime, look the URL up
\* in the table; then skip, or send the HEAD, or (force) send the PUT
Begin(i) ==
    /\ phase = "running"
    /\ w[i].pc = "file"
    /\ LET f == CurFile(i)
           url == target_url(Base(w[i].art), w[i].art, f.ext)
           n == Metadata(FS, f.path)
       IN  IF n = 0
           THEN \* fs::metadata(file_path)? returns the error to the caller
                /\ w' = [w EXCEPT ![i] = Advance(i)]
                /\ outcome' = Note(f.path, "Failed")
                /\ UNCHANGED log
           ELSE IF Checks
           THEN /\ IF LocalMatch(url, mtime[n])
                   THEN /\ w' = [w EXCEPT ![i] = Advance(i)]
                        /\ outcome' = Note(f.path, "SkippedLocalMatch")
                        /\ log' = [log EXCEPT !.get = Inc(@, url)]
                   ELSE /\ w' = [w EXCEPT ![i].pc = "head", ![i].url = url,
                                          ![i].mtime = mtime[n],
                                          ![i].txn = TxnAfterLookup]
                        /\ log' = [log EXCEPT !.get = Inc(@, url), !.head = Inc(@, url)]
                        /\ UNCHANGED outcome
           ELSE /\ w' = [w EXCEPT ![i].pc = "put", ![i].url = url, ![i].mtime = mtime[n]]
                /\ log' = [log EXCEPT !.put = Inc(@, url)]
                /\ UNCHANGED outcome
    /\ UNCHANGED <<tree, mtime, args, store, remote, run, phase, scan, processed,
                   queue, faults, prior, touched, store0, remote0, walk>>

\* what the repository can answer: "ok" is a 2xx status, "status" any other
\* status, "err" a transport failure.  A HEAD is answered 2xx only for an
\* object the repository holds; every answer other than the truthful one
\* (2xx for a held object or an accepted PUT, 404 for a missing object) is
\* a failure and counted.
HeadTruth(url) == IF url \in DOMAIN remote THEN "ok" ELSE "status"
Answers == {"ok", "status", "err"}

\* the URL a 2xx response r to worker i's request confirms (<<>>: r is no 2xx)
Received(i, r) == IF r = "ok" THEN w[i].url ELSE w[i].ok

\* (mutant) any HTTP response to the HEAD counts, whatever its status
HeadSaysExists_Mut(r) == r \in {"ok", "status"}

\* line 257-258: if let Ok(r) = resp { if r.status().is_success() {
HeadSaysExists(r) == r = "ok"

\* lines 256-267: the HEAD is answered; on success go on to record the
\* mtime, otherwise read the file and send the PUT
HeadResp(i, r) ==
    /\ phase = "running"
    /\ w[i].pc = "head"
    /\ r = "ok" => w[i].url \in DOMAIN remote
    /\ IF r = HeadTruth(w[i].url)
       THEN UNCHANGED faults
       ELSE faults < MaxFaults /\ faults' = faults + 1
    /\ IF HeadSaysExists(r)
       THEN /\ w' = [w EXCEPT ![i].pc = "saveH", ![i].ok = Received(i, r)]
            /\ UNCHANGED log
       ELSE /\ w' = [w EXCEPT ![i].pc = "put", ![i].ok = Received(i, r)]
            /\ log' = [log EXCEPT !.put = Inc(@, w[i].url)]
    /\ UNCHANGED <<tree, mtime, args, store, remote, run, phase, scan, processed,
                   queue, outcome, prior, touched, store0, remote0, walk>>

\* the object a PUT carries: the bytes the file had at the mtime just read
Body(i) == [path |-> CurFile(i).path, ver |-> w[i].mtime]

\* line 272: status.is_success()
PutSucceeded(r) == r = "ok"

\* lines 269-283: the PUT is answered
PutResp(i, r, landed) ==
    /\ phase = "running"
    /\ w[i].pc = "put"
    /\ r = "ok" => landed
    /\ r = "status" => ~landed
    /\ IF r = "ok"
       THEN UNCHANGED faults
       ELSE faults < MaxFaults /\ faults' = faults + 1
    /\ remote' = IF landed THEN Put(remote, w[i].url, Body(i)) ELSE remote
    /\ IF PutSucceeded(r)
       THEN /\ w' = [w EXCEPT ![i].pc = "saveP", ![i].ok = Received(i, r)]
            /\ UNCHANGED outcome
       ELSE /\ w' = [w EXCEPT ![i] = Advance(i)]
            /\ outcome' = Note(CurFile(i).path, "Failed")
    /\ UNCHANGED <<tree, mtime, args, store, run, phase, scan, processed,
                   queue, log, prior, touched, store0, remote0, walk>>

\* (mutant) the write transaction is dropped without commit
save_db_status_Mut(key, m) == store

\* lines 287-295: one write transaction, insert, commit
save_db_status(key, m) == Put(store, key, m)

\* lines 259-261 and 276: record the mtime after the successful response.
\* committed = FALSE: the write transaction fails, save_db_status(..)?
\* returns the error and upload_file ends without a record.
Save(i, committed) ==
    /\ phase = "running"
    /\ w[i].pc \in {"saveH", "saveP"}
    /\ IF committed
       THEN /\ store' = save_db_status(w[i].url, w[i].mtime)
            /\ outcome' = Note(CurFile(i).path,
                               IF w[i].pc = "saveH" THEN "SkippedRemoteMatch"
                                                    ELSE "Uploaded")
            /\ UNCHANGED faults
       ELSE /\ faults < MaxFaults
            /\ faults' = faults + 1
            /\ outcome' = Note(CurFile(i).path, "Unrecorded")
            /\ UNCHANGED store
    /\ w' = [w EXCEPT ![i] = Advance(i)]
    /\ UNCHANGED <<tree, mtime, args, remote, run, phase, scan, processed,
                   queue, log, prior, touched, store0, remote0, walk>>

\* ------------------------------------------------------------ invocations
Drained == queue = <<>> /\ \A i \in 1..Workers : w[i].pc \in {"idle", "free", "walk"}

\* lines 172-175: the channel is closed and empty, for_each returns
Finish ==
    /\ phase = "running"
    /\ ScanDone
    /\ Drained
    /\ phase' = "done"
    /\ UNCHANGED <<tree, mtime, args, store, remote, run, scan, processed, queue,
                   w, log, outcome, faults, prior, touched, store0, remote0, walk>>

\* the nodes whose modification time upload_file may read
Readable ==
    {n \in 1..Len(FS) :
        \E e \in 1..Len(FS) :
            /\ ArtOf(e).ok
            /\ \E k \in 1..Len(ArtOf(e).files) :
                  Metadata(FS, ArtOf(e).files[k].path) = n}

AnyFailed == \E p \in DOMAIN outcome : outcome[p] \cap {"Failed", "Unrecorded"} # {}

\* the process is started again (lines 101-127): everything but the table,
\* the repository and the tree starts afresh
Restart(how, t) ==
    /\ run' = run + 1
    /\ phase' = "running"
    /\ scan' = 1
    /\ processed' = {}
    /\ queue' = <<>>
    /\ w' = [i \in 1..Workers |-> Free]
    /\ walk' = "pending"
    /\ log' = NoLog
    /\ outcome' = Empty
    /\ faults' = 0
    /\ prior' = how
    /\ touched' = t
    /\ mtime' = IF t = 0 THEN mtime ELSE [mtime EXCEPT ![t] = run + 1]
    /\ store0' = store
    /\ remote0' = remote
    /\ UNCHANGED <<tree, args, store, remote>>

\* a finished invocation is followed by another one, a file possibly
\* modified in between (its mtime becomes the time of the change; time is
\* counted in invocations, the files of the initial tree being of time 1)
NewRun(t) ==
    /\ phase = "done"
    /\ run < MaxRuns
    /\ t # 0 => t \in Readable
    /\ Restart(IF AnyFailed THEN "failed"
               ELSE IF walk = "busy" THEN "aborted" ELSE "clean", t)

\* the process is killed at any point and started again on the same tree
Kill ==
    /\ phase = "running"
    /\ run < MaxRuns
    /\ Restart("killed", 0)

Next ==
    \/ \E i \in 1..Workers : StartWalk(i)
    \/ \E i \in 1..Workers : StartConsumer(i)
    \/ BusyTimeout
    \/ ScanEntry
    \/ \E i \in 1..Workers : Dequeue(i)
    \/ \E i \in 1..Workers : Begin(i)
    \/ \E i \in 1..Workers, r \in Answers : HeadResp(i, r)
    \/ \E i \in 1..Workers, r \in Answers, landed \in BOOLEAN : PutResp(i, r, landed)
    \/ \E i \in 1..Workers, committed \in BOOLEAN : Save(i, committed)
    \/ Finish
    \/ \E t \in 0..Len(FS) : NewRun(t)
    \/ Kill

Spec == Init /\ [][Next]_vars

\* Invocations that are left to run to their end (no kill), the threads
\* being scheduled and every HTTP and table call returning: as long as a
\* step of the running invocation is possible, one is eventually taken.
Step ==
    \/ \E i \in 1..Workers : StartWalk(i)
    \/ \E i \in 1..Workers : StartConsumer(i)
    \/ BusyTimeout
    \/ ScanEntry
    \/ \E i \in 1..Workers : Dequeue(i)
    \/ \E i \in 1..Workers : Begin(i)
    \/ \E i \in 1..Workers, r \in Answers : HeadResp(i, r)
    \/ \E i \in 1..Workers, r \in Answers, landed \in BOOLEAN : PutResp(i, r, landed)
    \/ \E i \in 1..Workers, committed \in BOOLEAN : Save(i, committed)
    \/ Finish

RunNext ==
    \/ Step
    \/ \E t \in 0..Len(FS) : NewRun(t)

FairSpec == Init /\ [][RunNext]_vars /\ WF_vars(Step)

\* The scanner side of an invocation alone (lines 135-154), over every tree:
\* the walk and the closure, no artifact being taken from the channel.
ScanInit == InitOn(1..Len(Trees))

ScanNext ==
    \/ \E i \in 1..Workers : StartWalk(i)
    \/ \E i \in 1..Workers : StartConsumer(i)
    \/ BusyTimeout
    \/ ScanEntry

ScanSpec == ScanInit /\ [][ScanNext]_vars

\* ------------------------------------------------------ claim vocabulary
\* the walk entries that are descriptors and resolve to an artifact
Resolved ==
    {e \in 1..Len(FS) :
        /\ FS[e].kind # "err"
        /\ IsDescriptorName(FileName(FS[e].path))
        /\ ArtOf(e).ok}
UrlOf(art, k) == target_url(Base(art), art, art.files[k].ext)

\* the entries the filter admits, the entries the scanner has sent to the
\* channel in this run, and the file-processing steps (entry, file number)
\* of the admitted and of the sent entries
Admissible ==
    {e \in Resolved : ~is_excluded(FS, ArtOf(e), args.exclude, args.max_size)}
Enqueued == {e \in Admissible : FS[e].path \in processed}
AllTasks == {t \in Admissible \X (1..Len(FS)) : t[2] <= Len(ArtOf(t[1]).files)}
Tasks == {t \in AllTasks : t[1] \in Enqueued}
TaskUrl(t) == UrlOf(ArtOf(t[1]), t[2])
TaskNode(t) == Metadata(FS, ArtOf(t[1]).files[t[2]].path)
TaskPath(t) == ArtOf(t[1]).files[t[2]].path

Puts(u) == Get(log.put, u)
Heads(u) == Get(log.head, u)
Lookups(u) == Get(log.get, u)
InQueue(art) == \E k \in 1..Len(queue) : queue[k] = art
Held(art) == \E i \in 1..Workers : w[i].art = art

\* ------------------------------------------------------------------- C1
\* C1 (idempotence across runs): in non-force mode, when the previous
\* invocation ran to completion with every file uploaded, probed with
\* success or already recorded, and its record committed, and no
\* modification time has changed since,
\* the invocation sends no PUT (and no HEAD): every file it processes is
\* resolved by the table lookup alone.
C1_Idempotent ==
    (run > 1 /\ prior = "clean" /\ touched = 0 /\ ~args.force) =>
        /\ log.put = Empty
        /\ log.head = Empty
        /\ \A i \in 1..Workers : w[i].pc \notin {"head", "put", "saveH", "saveP"}
        /\ \A p \in DOMAIN outcome : outcome[p] = {"SkippedLocalMatch"}

\* the second invocation has finished and has skipped every file of the tree
C1_Witness ==
    /\ run > 1 /\ prior = "clean" /\ touched = 0 /\ ~args.force /\ phase = "done"
    /\ Tasks # {} /\ Tasks = AllTasks
    /\ \A t \in Tasks : GetSet(outcome, TaskPath(t)) = {"SkippedLocalMatch"}
    /\ \A t \in Tasks : Lookups(TaskUrl(t)) > 0

\* ------------------------------------------------------------------- C2
\* C2 (change detection), as claimed: in non-force mode, after an invocation
\* that completed without failure and left a file delivered and recorded,
\* a change of that file's modification time makes the next invocation send
\* exactly one PUT to the file's target URL.
C2_ExactlyOnePut ==
    (phase = "done" /\ run > 1 /\ prior = "clean" /\ touched # 0 /\ ~args.force) =>
        \A t \in Tasks :
            (/\ TaskNode(t) = touched
             /\ TaskUrl(t) \in DOMAIN store0
             /\ TaskUrl(t) \in DOMAIN remote0)
            => Puts(TaskUrl(t)) = 1

\* ------------------------------------------------------------------- C3
\* C3 (concurrency safety), as claimed: in a first invocation on an empty
\* repository that accepts every request, with more artifacts than
\* workers, no target URL is PUT twice, never are two PUTs to one URL in
\* flight together, and at the end every target URL has been PUT once.
C3_OnePutPerUrl ==
    (run = 1 /\ faults = 0 /\ Cardinality(Admissible) > Workers) =>
        /\ \A u \in DOMAIN log.put : log.put[u] <= 1
        /\ \A i, j \in 1..Workers :
              (i # j /\ w[i].pc = "put" /\ w[j].pc = "put") => w[i].url # w[j].url
        /\ phase = "done" => \A t \in Tasks : Puts(TaskUrl(t)) = 1

\* ------------------------------------------------------------------- C4
\* C4 (record after success): whenever a step changes the table entry of a
\* URL, a worker is inside an upload_file call for that URL, has already
\* received a 2xx response (to its HEAD or its PUT) for that URL in that
\* call, and the value written is the mtime that call read.
C4_RecordAfterSuccess ==
    [][\A u \in DOMAIN store' :
          Get(store, u) # store'[u] =>
              \E i \in 1..Workers :
                  /\ w[i].pc \in {"saveH", "saveP"}
                  /\ w[i].url = u
                  /\ w[i].ok = u
                  /\ w[i].mtime = store'[u]]_vars

\* a record written after a 2xx HEAD and a record written after a 2xx PUT
C4_Witness ==
    /\ \E p \in DOMAIN outcome : "SkippedRemoteMatch" \in outcome[p]
    /\ \E p \in DOMAIN outcome : "Uploaded" \in outcome[p]
    /\ store # Empty

\* ------------------------------------------------------------------- C5
\* C5 (per-file failure handling), as claimed: the step in which the PUT
\* of a file fails (non-2xx status or transport error) leaves the table
\* unchanged; once that PUT has failed, no later step of the same
\* invocation sends another PUT to that URL; and the invocation ends only
\* after every file of every enqueued artifact has got an outcome.
C5_FailureHandling ==
    [][\A t \in Tasks :
          /\ ("Failed" \in GetSet(outcome', TaskPath(t)) \ GetSet(outcome, TaskPath(t)))
                => store' = store
          /\ ("Failed" \in GetSet(outcome, TaskPath(t)) /\ run' = run)
                => Get(log'.put, TaskUrl(t)) = Get(log.put, TaskUrl(t))
          /\ phase' = "done" => GetSet(outcome', TaskPath(t)) # {}]_vars

\* ------------------------------------------------------------------- C6
\* C6 (resumability): in a non-force invocation that follows a kill, on
\* the unchanged tree, (a) every record the table held at the kill is kept,
\* and a file whose record equals its mtime causes no HEAD and no PUT;
\* (b) while the repository answers truthfully, no URL the repository
\* already held at the restart is PUT (it is resolved by the table or by
\* the HEAD), so only files never delivered are PUT.
C6_Resumable ==
    (run > 1 /\ prior = "killed" /\ ~args.force) =>
        /\ \A u \in DOMAIN store0 : u \in DOMAIN store
        /\ \A t \in AllTasks :
              Get(store0, TaskUrl(t)) = mtime[TaskNode(t)] =>
                  /\ Heads(TaskUrl(t)) = 0
                  /\ Puts(TaskUrl(t)) = 0
                  /\ Get(store, TaskUrl(t)) = mtime[TaskNode(t)]
        /\ faults = 0 =>
              \A u \in DOMAIN remote0 : Puts(u) = 0

\* after a kill: one file skipped by the table, one file delivered but not
\* recorded skipped after the HEAD, one file never delivered uploaded
C6_Witness ==
    /\ run > 1 /\ prior = "killed" /\ ~args.force /\ phase = "done" /\ faults = 0
    /\ \E t \in Tasks :
          /\ TaskUrl(t) \in DOMAIN store0
          /\ GetSet(outcome, TaskPath(t)) = {"SkippedLocalMatch"}
    /\ \E t \in Tasks :
          /\ TaskUrl(t) \in DOMAIN remote0 /\ TaskUrl(t) \notin DOMAIN store0
          /\ "SkippedRemoteMatch" \in GetSet(outcome, TaskPath(t))
          /\ Puts(TaskUrl(t)) = 0
    /\ \E t \in Tasks :
          /\ TaskUrl(t) \notin DOMAIN remote0
          /\ "Uploaded" \in GetSet(outcome, TaskPath(t))

\* ------------------------------------------------------------------- C7
\* C7 (force override): with --force no table lookup and no HEAD is ever
\* made, and when the invocation ends every file of every dequeued
\* artifact has been PUT once per processing of it, whatever the table and
\* the repository held.
C7_Force ==
    args.force =>
        /\ log.get = Empty
        /\ log.head = Empty
        /\ \A i \in 1..Workers : w[i].pc \notin {"head", "saveH"}
        /\ phase = "done" =>
              \A t \in Tasks :
                  Puts(TaskUrl(t)) = Cardinality({t2 \in Tasks : TaskUrl(t2) = TaskUrl(t)})

\* a forced invocation finished although table and repository already
\* held every file
C7_Witness ==
    /\ args.force /\ phase = "done" /\ run > 1 /\ Tasks # {}
    /\ \A t \in Tasks :
          /\ Get(store0, TaskUrl(t)) = mtime[TaskNode(t)]
          /\ TaskUrl(t) \in DOMAIN remote0
          /\ Puts(TaskUrl(t)) > 0

\* ------------------------------------------------------------------- C8
\* s has a configured exclusion keyword as a substring
HasKeyword(s) ==
    \E k \in 1..Len(args.exclude) :
        \E a \in 0..Len(s) :
            /\ a + Len(args.exclude[k]) <= Len(s)
            /\ \A j \in 1..Len(args.exclude[k]) : s[a + j] = args.exclude[k][j]

\* C8 (exclusion): an artifact whose groupId or artifactId has a configured
\* exclusion keyword as a substring is never in the channel, never held by
\* a worker, and no HEAD and no PUT is sent to a target URL of its files.
C8_Exclusion ==
    \A e \in Resolved :
        (HasKeyword(ArtOf(e).group_id) \/ HasKeyword(ArtOf(e).artifact_id)) =>
            /\ ~InQueue(ArtOf(e))
            /\ ~Held(ArtOf(e))
            /\ \A k \in 1..Len(ArtOf(e).files) :
                  Heads(UrlOf(ArtOf(e), k)) = 0 /\ Puts(UrlOf(ArtOf(e), k)) = 0

\* an invocation has ended, has uploaded something, and has left out an
\* artifact that matches a keyword
C8_Witness ==
    /\ phase = "done"
    /\ log.put # Empty
    /\ \E e \in Resolved :
          /\ HasKeyword(ArtOf(e).artifact_id)
          /\ Len(ArtOf(e).files) > 0

\* ------------------------------------------------------------------- C9
\* art has a jar or war file of more than max_size MiB, counted in bytes
Oversize(art) ==
    \E k \in 1..Len(art.files) :
        /\ art.files[k].ext \in {EXT_JAR, EXT_WAR}
        /\ Metadata(FS, art.files[k].path) # 0
        /\ FS[Metadata(FS, art.files[k].path)].size > args.max_size * 1024 * 1024

\* C9 (size gate), as claimed: an artifact with a jar or war file of more
\* than max_size * 1024 * 1024 bytes is never sent to the channel, by
\* however few bytes the file is above the limit.
C9_SizeGate ==
    \A e \in Resolved :
        Oversize(ArtOf(e)) =>
            /\ ~InQueue(ArtOf(e))
            /\ ~Held(ArtOf(e))
            /\ \A k \in 1..Len(ArtOf(e).files) : Puts(UrlOf(ArtOf(e), k)) = 0

\* ------------------------------------------------------------------ C10
\* a configured URL made to end in '/', and the -SNAPSHOT test on a version
Slashed(u) == IF u[Len(u)] = "/" THEN u ELSE u \o <<"/">>
IsSnapshotVersion(v) ==
    /\ Len(v) >= Len(SNAPSHOT)
    /\ \A j \in 1..Len(SNAPSHOT) : v[Len(v) - Len(SNAPSHOT) + j] = SNAPSHOT[j]

\* C10 (snapshot routing): the URL of every request a worker makes starts
\* with the snapshot URL (made to end in '/') exactly when the artifact's
\* version ends in -SNAPSHOT and a snapshot URL is configured, and with
\* the release URL (made to end in '/') in every other case.
C10_SnapshotRouting ==
    \A i \in 1..Workers :
        w[i].url # <<>> =>
            LET toSnapshot == IsSnapshotVersion(w[i].art.version) /\ args.snapshot_url.some
            IN  /\ toSnapshot => StartsWith(w[i].url, Slashed(args.snapshot_url.val))
                /\ ~toSnapshot => StartsWith(w[i].url, Slashed(args.url))
                /\ w[i].url \in DOMAIN log.put \cup DOMAIN log.head

\* requests in flight for a snapshot artifact and for a release artifact
C10_Witness ==
    /\ args.snapshot_url.some
    /\ \E i \in 1..Workers :
          w[i].pc = "put" /\ IsSnapshotVersion(w[i].art.version)
    /\ \E i \in 1..Workers :
          w[i].pc = "put" /\ ~IsSnapshotVersion(w[i].art.version)

\* ------------------------------------------------------------------ C11
\* the canonical path of a walk entry (the path itself unless the entry is a
\* symlink), whether it can be resolved and lies below the root, and the
\* segments c[1..k] written one after the other with '.' between them
Canonical(e) == FS[e].target
UnderRoot(e) ==
    /\ FS[e].kind # "err"
    /\ ~FS[e].outside
    /\ \E x \in 1..Len(FS) : FS[x].kind = "file" /\ FS[x].path = Canonical(e)
RECURSIVE Dotted(_, _)
Dotted(c, k) == IF k = 1 THEN c[1] ELSE Dotted(c, k - 1) \o <<".">> \o c[k]

\* C11 (coordinate resolution): for every entry of the tree, with c the
\* canonical root-relative path of the entry and n its number of segments,
\* extract_full_artifact fails when the path does not resolve below the
\* root and when n < 4, and otherwise gives version = c[n-1],
\* artifactId = c[n-2] and groupId = c[1..n-3] joined with '.'; only
\* resolved descriptors are claimed and every artifact in the channel is
\* the resolution of a claimed descriptor.
C11_Coordinates ==
    /\ \A e \in 1..Len(FS) :
          LET c == Canonical(e)
              n == Len(c)
              r == extract_full_artifact(FS, FS[e].path)
          IN  /\ ~UnderRoot(e) => ~r.ok
              /\ (UnderRoot(e) /\ n < 4) => ~r.ok
              /\ (UnderRoot(e) /\ n >= 4) =>
                    /\ r.ok
                    /\ r.version = c[n - 1]
                    /\ r.artifact_id = c[n - 2]
                    /\ r.group_id = Dotted(c, n - 3)
              /\ FS[e].path \in processed => (UnderRoot(e) /\ n >= 4)
    /\ \A k \in 1..Len(queue) :
          \E e \in 1..Len(FS) :
              /\ FS[e].path \in processed
              /\ queue[k] = extract_full_artifact(FS, FS[e].path)

\* the descriptor g/h/a/1/a-1.pom has been sent to the channel as g.h:a:1
C11_Witness ==
    /\ ScanDone
    /\ \E k \in 1..Len(queue) :
          /\ queue[k].group_id = <<"g", ".", "h">>
          /\ queue[k].artifact_id = <<"a">>
          /\ queue[k].version = <<"1">>

\* ------------------------------------------------------------------ C12
\* C12 (scan deduplication), as claimed: in a run, no two claimed walk
\* entries have the same canonical descriptor path, so the channel is sent
\* at most one artifact per canonical descriptor file, also when the walk
\* reaches the file by several paths.
C12_OncePerCanonical ==
    \A e1, e2 \in 1..Len(FS) :
        (/\ FS[e1].path \in processed
         /\ FS[e2].path \in processed
         /\ Canonical(e1) = Canonical(e2))
        => e1 = e2

\* ------------------------------------------------------------------ C15
\* C15 (descriptor inclusion), as claimed: the artifact resolved from a
\* descriptor the scanner accepts by name (ending in .pom, or pom.xml) and
\* has claimed lists that descriptor file, with remote suffix pom.
C15_DescriptorIncluded ==
    \A e \in Resolved :
        FS[e].path \in processed =>
            \E k \in 1..Len(ArtOf(e).files) :
                /\ ArtOf(e).files[k].path = FS[e].path
                /\ ArtOf(e).files[k].ext = <<"p", "o", "m">>

\* ------------------------------------------------------------------ C19
\* C19 (layout mirroring), as claimed: for every regular file of every
\* artifact sent to the channel, the target URL upload_file builds is the
\* base URL followed by the file's path below the scan root, its segments
\* joined by '/'.
C19_LayoutMirrored ==
    \A k \in 1..Len(queue) :
        \A f \in 1..Len(queue[k].files) :
            FS[NodeAt(FS, queue[k].files[f].path)].kind = "file" =>
                target_url(Base(queue[k]), queue[k], queue[k].files[f].ext)
                    = Base(queue[k]) \o Join(queue[k].files[f].path, SLASH)

\* ------------------------------------------------------------------ C13
\* C13 (termination): an invocation that is not killed, its threads being
\* scheduled fairly and every HTTP and table call returning, eventually
\* ends; and when it has ended the scanner has finished, the channel is
\* empty, no thread is inside upload_file, and every file of every
\* artifact that was sent to the channel has got an outcome.
C13_Termination ==
    /\ (phase = "running") ~> (phase = "done")
    /\ [](phase = "done" =>
            /\ ScanDone
            /\ queue = <<>>
            /\ \A i \in 1..Workers : w[i].pc \in {"free", "walk", "idle"}
            /\ \A t \in Tasks : GetSet(outcome, TaskPath(t)) # {})

\* an invocation has ended although a request failed in it, every admitted
\* artifact having been sent and processed
C13_Witness ==
    /\ phase = "done"
    /\ faults > 0
    /\ Enqueued = Admissible
    /\ Tasks # {}
    /\ \A t \in Tasks : GetSet(outcome, TaskPath(t)) # {}

\* ------------------------------------------------------------------ C14
\* the results a step adds for a file, a table write that fails after the
\* 2xx answer (upload_file returns the error) counting as Failed; and the
\* files of the invocation that are processed once only
Terminal == {"SkippedLocalMatch", "SkippedRemoteMatch", "Uploaded", "Failed"}
AsTerminal(o) == IF o = "Unrecorded" THEN "Failed" ELSE o
Ended(out, p) == {AsTerminal(o) : o \in GetSet(out, p)}
NewlyEnded(p) == {AsTerminal(o) : o \in GetSet(outcome', p) \ GetSet(outcome, p)}
Single(t) == \A t2 \in Tasks : TaskPath(t2) = TaskPath(t) => t2 = t

\* what the frame of the per-file state machine says of a step, the
\* results in persisting being those that write the table
FrameOf(persisting) ==
    /\ run' = run =>
          \A t \in Tasks :
              /\ (NewlyEnded(TaskPath(t)) # {} /\ NewlyEnded(TaskPath(t)) \cap persisting = {})
                    => store' = store
              /\ (Single(t) /\ NewlyEnded(TaskPath(t)) \cap persisting # {})
                    => Get(store', TaskUrl(t)) = mtime[TaskNode(t)]
    /\ store' # store =>
          \E t \in Tasks : NewlyEnded(TaskPath(t)) \cap persisting # {}
    /\ phase' = "done" =>
          \A t \in Tasks :
              Single(t) =>
                  /\ Cardinality(Ended(outcome', TaskPath(t))) = 1
                  /\ Ended(outcome', TaskPath(t)) \subseteq Terminal

\* C14 (per-file frame), as claimed: each file processed in an invocation
\* ends in exactly one of SkippedLocalMatch, SkippedRemoteMatch, Uploaded
\* and Failed; the step to Uploaded writes the file's mtime to the table and
\* the steps to the three other results leave the table unchanged.
C14_OnlyUploadedPersists == [][FrameOf({"Uploaded"})]_vars

\* C14 (per-file frame), as amended: each file processed in an invocation
\* ends in exactly one of the four results; the steps to Uploaded and to
\* SkippedRemoteMatch write the file's mtime to the table, and the steps to
\* SkippedLocalMatch and to Failed leave the table unchanged.
C14_Frame == [][FrameOf({"Uploaded", "SkippedRemoteMatch"})]_vars

\* an invocation has ended in which each of the four results occurred and
\* the table was written
C14_Witness ==
    /\ phase = "done"
    /\ \A o \in Terminal : \E t \in Tasks : o \in Ended(outcome, TaskPath(t))
    /\ store # store0

\* ------------------------------------------------------------------ C16
\* thread i is blocked in a request or in a table write
Blocked(i) == w[i].pc \in {"head", "put", "saveH", "saveP"}

\* C16 (blocking isolation), as claimed: while a thread is blocked in a
\* HEAD, a PUT or a table write, every other thread can take its next step
\* (start a file, take an artifact that is in the channel, receive its
\* answer, record); and as long as the scanner has not ended it can take
\* its next step (have the walk started, or handle the next entry), also
\* when every thread of the pool is blocked or waiting on the channel.
C16_BlockingIsolation ==
    /\ \A i, j \in 1..Workers :
          (Blocked(i) /\ j # i) =>
              /\ w[j].pc = "file" => ENABLED Begin(j)
              /\ (w[j].pc = "idle" /\ queue # <<>>) => ENABLED Dequeue(j)
              /\ w[j].pc = "head" => ENABLED HeadResp(j, HeadTruth(w[j].url))
              /\ w[j].pc = "put" => ENABLED PutResp(j, "ok", TRUE)
              /\ w[j].pc \in {"saveH", "saveP"} => ENABLED Save(j, TRUE)
    /\ (phase = "running" /\ ~ScanDone) =>
          \/ ENABLED ScanEntry
          \/ ENABLED (\E i \in 1..Workers : StartWalk(i))

C18_ScanRobust ==
    /\ \A e \in 1..Len(FS) : FS[e].path \in processed => e \in Admissible
    /\ ScanDone => \A e \in Admissible : FS[e].path \in processed

\* ------------------------------------------------------------------ C20
\* C20 (cache/remote consistency), as claimed: in non-force invocations,
\* whenever the table maps the target URL of a file to the file's current
\* mtime, the object the repository holds at that URL is the content the
\* file had at that mtime.
C20_CacheMatchesRemote ==
    ~args.force =>
        \A t \in AllTasks :
            Get(store, TaskUrl(t)) = mtime[TaskNode(t)] =>
                Get(remote, TaskUrl(t)) = [path |-> TaskPath(t), ver |-> mtime[TaskNode(t)]]

====
